---- MODULE Spec2Model ----
(***************************************************************************)
(* Referral bot (src/main.py): the SQLite store (users, referrals,         *)
(* redemptions) and the handlers that read and write it.  Every handler is *)
(* a coroutine; each `await db.execute(...)` / `await db.commit()` on a    *)
(* fresh aiosqlite connection is a suspension point, so a handler is a     *)
(* sequence of steps, one per committed statement group, and handlers of   *)
(* different updates interleave between steps.                             *)
(***************************************************************************)
EXTENDS Integers, Sequences, FiniteSets, Bags, TLC

VARIABLES
    catalog,      \* REWARDS: code -> [cost, repeatable, payload]
    users,        \* table users: user_id -> <<>> (no row) or <<username>>
    referrals,    \* table referrals: bag of [referrer_id, referee_id, credited]
    redemptions,  \* table redemptions: bag of [user_id, reward_code, cost]
    inflight,     \* bag of the frames of the handler coroutines in flight
    returned      \* per referee: how many mark_credited calls returned a referrer id

vars == <<catalog, users, referrals, redemptions, inflight, returned>>

(* ------------------------------ bounds -------------------------------- *)
\* handler coroutines that can be in flight at the same time
NumProcs == 2
\* the `returned` counter saturates here
MaxCount == 2

(* ------------------------------ inputs -------------------------------- *)
UserIds == {1001, 2002, 2003}
Usernames == {""}

\* REWARDS as shipped
CatalogSource ==
    [c \in {"vip1"} |-> [cost |-> 2, repeatable |-> TRUE, payload |-> "https://t.me/lexxis00"]]
\* the same entry edited to non-repeatable
CatalogOnce ==
    [c \in {"vip1"} |-> [cost |-> 2, repeatable |-> FALSE, payload |-> "https://t.me/lexxis00"]]
\* an edited catalog with two entries
CatalogTwo ==
    [c \in {"vip1", "vip2"} |->
        IF c = "vip1" THEN [cost |-> 1, repeatable |-> TRUE, payload |-> "pack1"]
                      ELSE [cost |-> 1, repeatable |-> FALSE, payload |-> "pack2"]]
Catalogs == {CatalogSource, CatalogOnce, CatalogTwo}

\* callback data is "redeem_" + code; these are the codes after the prefix
RedeemCodes == {"vip1", "vip2", "gone"}

\* /start arguments as typed: context.args[0], a string, given by its characters
StartArgs ==
    { <<"1","0","0","1">>, <<"2","0","0","2">>, <<"2","0","0","3">>,
      <<"0">>, <<"x","1">>, <<"P","o","i","n","t","s">>, <<"p","o","i","n","t","s">> }

\* user.username as /whoinvited looks it up, given by its characters; <<>> is
\* a user without one
Handles == {<<>>, <<"a","n","n">>, <<"A","n","n">>}

\* the argument of /whoinvited: "@ann", "@ANN", "@bob", "@", ids, and "x1"
Targets ==
    { <<"@","a","n","n">>, <<"@","A","N","N">>, <<"@","b","o","b">>, <<"@">>,
      <<"1","0","0","1">>, <<"2","0","0","3">>, <<"9","9">>, <<"x","1">> }

\* ChatMember.status values of get_chat_member; "error" is the call raising
ChatStatuses == {"member", "administrator", "creator", "left", "error"}

(* ------------------------- Optional[...] values ------------------------ *)
None == {}
Some(x) == {x}
The(o) == CHOOSE x \in o : TRUE

(* ------------------------------ helpers -------------------------------- *)
Max(a, b) == IF a >= b THEN a ELSE b
Min(a, b) == IF a <= b THEN a ELSE b

RECURSIVE SumOver(_, _)
\* sum of CopiesIn(r, B) * w(r) over the rows r of S, with w given as a function
SumOver(S, w) ==
    IF S = {} THEN 0
    ELSE LET r == CHOOSE x \in S : TRUE IN w[r] + SumOver(S \ {r}, w)

\* str.lower() on the characters the inputs use
LowerChar(c) ==
    CASE c = "P" -> "p" [] c = "A" -> "a" [] c = "N" -> "n" [] OTHER -> c
Lower(s) == [i \in 1..Len(s) |-> LowerChar(s[i])]

Digits == {"0", "1", "2", "3", "4", "5", "6", "7", "8", "9"}
DigitVal(c) ==
    CASE c = "0" -> 0 [] c = "1" -> 1 [] c = "2" -> 2 [] c = "3" -> 3 [] c = "4" -> 4
      [] c = "5" -> 5 [] c = "6" -> 6 [] c = "7" -> 7 [] c = "8" -> 8 [] c = "9" -> 9

RECURSIVE DigitsVal(_)
DigitsVal(s) ==
    IF s = <<>> THEN 0 ELSE 10 * DigitsVal(SubSeq(s, 1, Len(s) - 1)) + DigitVal(s[Len(s)])

\* int(arg): Some(n), or None for ValueError
ParseInt(s) ==
    IF s # <<>> /\ \A i \in 1..Len(s) : s[i] \in Digits THEN Some(DigitsVal(s)) ELSE None

(* ------------------------------- store --------------------------------- *)
RefRows == BagToSet(referrals)
RedRows == BagToSet(redemptions)

\* SELECT COUNT(*) FROM referrals WHERE referrer_id=? AND credited=1
EarnedIn(refs, u) ==
    LET S == {r \in BagToSet(refs) : r.referrer_id = u /\ r.credited = 1}
    IN SumOver(S, [r \in S |-> CopiesIn(r, refs)])
get_earned(u) == EarnedIn(referrals, u)

\* SELECT COALESCE(SUM(cost),0) FROM redemptions WHERE user_id=?
SpentIn(reds, u) ==
    LET S == {r \in BagToSet(reds) : r.user_id = u}
    IN SumOver(S, [r \in S |-> CopiesIn(r, reds) * r.cost])
get_spent(u) == SpentIn(redemptions, u)

\* the third component of get_balance's result
Balance(earned, spent) == Max(0, earned - spent)

(* ------------------------------ frames --------------------------------- *)
\* A handler coroutine in flight: `at` is the statement it is suspended
\* before, the other fields are its local variables.  Coroutines have no
\* identity beyond their frame, so the ones in flight form a bag.  `seen`,
\* `torn`, `afford` and `known` are not locals of the code: they record what
\* the store held when the handler was called or while it was suspended
\* (`known`: the users row existed before this start's upsert_user).
NoFrame ==
    [at |-> "", op |-> "", uid |-> 0, code |-> "", ref |-> None, who |-> 0,
     earned |-> 0, spent |-> 0, balance |-> 0, exists |-> FALSE,
     out |-> "", payload |-> "", rows |-> <<>>,
     seen |-> {}, torn |-> FALSE, afford |-> FALSE,
     status |-> "", known |-> FALSE, arg |-> <<>>, resolved |-> None,
     page |-> 0, size |-> 0]

NewFrame(op, u) == [NoFrame EXCEPT !.op = op, !.uid = u]

Running == BagToSet(inflight)

\* A reply touches no table and the handler returns right after it, so the
\* reply and the return are taken before any other coroutine's next statement:
\* every store behaviour is kept, and a finished handler's result is looked at
\* in the one state where its frame is at "reply".
Quiet == \A f \in Running : f.at # "reply"

\* the dispatcher starts a handler for a new update
Free == Quiet /\ BagCardinality(inflight) < NumProcs

\* some coroutine is suspended at frame f
At(f, at) == Quiet /\ f \in Running /\ f.at = at

\* what a get_balance call in flight has seen of its user's (earned, spent):
\* every pair the store passed through since the call's first read
Observed(f, refs, reds) ==
    IF f.at = "get_spent"
    THEN [f EXCEPT !.seen = @ \cup {<<EarnedIn(refs, f.who), SpentIn(reds, f.who)>>}]
    ELSE f

\* the coroutines in flight after a new one entered at frame g
Enter(g) == inflight (+) SetToBag({g})

\* the coroutines in flight after the one at f moved to g and the store
\* became (refs, reds)
Move(f, g, refs, reds) ==
    BagOfAll(LAMBDA h : Observed(h, refs, reds), inflight (-) SetToBag({f})) (+) SetToBag({g})

(* ------------------------------ get_balance ---------------------------- *)
\* get_balance, first await: get_earned(who) on its own connection
BalanceBegin(f, who, refs, reds) ==
    [f EXCEPT !.at = "get_spent", !.who = who, !.earned = EarnedIn(refs, who),
              !.seen = {<<EarnedIn(refs, who), SpentIn(reds, who)>>}]

\* get_balance, second await: get_spent(who) on another connection; the result
\* is (earned, spent, max(0, earned - spent))
BalanceEnd(f) ==
    [f EXCEPT !.spent = get_spent(f.who),
              !.balance = Balance(f.earned, get_spent(f.who)),
              !.torn = <<f.earned, get_spent(f.who)>> \notin f.seen,
              !.seen = {}]

(* ------------------------------ upsert_user ---------------------------- *)
\* INSERT OR IGNORE INTO users ...; UPDATE users SET username=? ...; commit
upsert_user(tbl, u, uname) == [tbl EXCEPT ![u] = <<uname>>]

(* -------------------------- add_pending_referral ----------------------- *)
\* variant of the code: INSERT OR REPLACE: a later link takes the referee over
InsertOrReplaceReferral(refs, referrer, referee) ==
    LET kept == [r \in {x \in BagToSet(refs) : x.referee_id # referee} |-> CopiesIn(r, refs)]
    IN kept (+) SetToBag({[referrer_id |-> referrer, referee_id |-> referee, credited |-> 0]})

\* INSERT OR IGNORE against referee_id UNIQUE: the row is added only when no
\* row holds this referee_id
InsertOrIgnoreReferral(refs, referrer, referee) ==
    IF \E r \in BagToSet(refs) : r.referee_id = referee
    THEN refs
    ELSE refs (+) SetToBag({[referrer_id |-> referrer, referee_id |-> referee, credited |-> 0]})

\* variant of the code: the `if referrer_id == referee_id: return` guard left out
AddPendingNoSelfCheck(refs, referrer, referee) == InsertOrIgnoreReferral(refs, referrer, referee)

add_pending_referral(refs, referrer, referee) ==
    IF referrer = referee THEN refs ELSE InsertOrIgnoreReferral(refs, referrer, referee)

(* ------------------------------ mark_credited -------------------------- *)
\* variant of the code: the SELECT on a stale snapshot without the edge
MarkSelectNone(refs, referee) == {}

\* SELECT referrer_id, credited FROM referrals WHERE referee_id=? ; fetchone
MarkSelectRows(refs, referee) == {r \in BagToSet(refs) : r.referee_id = referee}

\* variant of the code: the UPDATE without its WHERE clause
MarkUpdateAll(refs, referee) ==
    BagOfAll(LAMBDA r : [r EXCEPT !.credited = 1], refs)

\* variant of the code: the UPDATE flips the flag instead of setting it
MarkUpdateToggle(refs, referee) ==
    BagOfAll(LAMBDA r : IF r.referee_id = referee THEN [r EXCEPT !.credited = 1 - @] ELSE r, refs)

\* variant of the code: the UPDATE never committed
MarkUpdateNone(refs, referee) == refs

\* UPDATE referrals SET credited=1 WHERE referee_id=? ; commit
MarkUpdateRows(refs, referee) ==
    BagOfAll(LAMBDA r : IF r.referee_id = referee THEN [r EXCEPT !.credited = 1] ELSE r, refs)

(* -------------------------------- start -------------------------------- *)
\* start() after upsert_user: where the arguments send it
StartBranch(args) ==
    IF args = <<>> THEN [mode |-> "link", ref |-> None]
    ELSE IF Lower(args[1]) = <<"p","o","i","n","t","s">> THEN [mode |-> "points", ref |-> None]
    ELSE [mode |-> "link", ref |-> ParseInt(Lower(args[1]))]

\* `if referrer_id:` is false for None and for 0
Truthy(ref) == ref # None /\ The(ref) # 0

\* start() up to and including upsert_user
Start(u, uname, args) ==
    /\ Free
    /\ users' = upsert_user(users, u, uname)
    /\ LET b == StartBranch(args)
           f == [NewFrame("start", u) EXCEPT !.known = users[u] # <<>>]
       IN inflight' = Enter(
            IF b.mode = "points" THEN BalanceBegin(f, u, referrals, redemptions)
            ELSE IF Truthy(b.ref) THEN [f EXCEPT !.at = "add_pending_referral", !.ref = b.ref]
            ELSE [f EXCEPT !.at = "reply", !.out = "welcome"])
    /\ UNCHANGED <<catalog, referrals, redemptions, returned>>

AddPendingReferral(f) ==
    /\ At(f, "add_pending_referral")
    /\ referrals' = add_pending_referral(referrals, The(f.ref), f.uid)
    /\ inflight' = Move(f, [f EXCEPT !.at = "reply", !.out = "welcome"], referrals', redemptions)
    /\ UNCHANGED <<catalog, users, redemptions, returned>>

(* ------------------------------ cb_verify ------------------------------ *)
\* variant of the code: a user who left still counts
IsMemberOrLeft(status) == status \in {"member", "administrator", "creator", "left"}

IsMember(status) == status \in {"member", "administrator", "creator"}

Bump(n) == Min(n + 1, MaxCount)

\* cb_verify up to and including mark_credited's SELECT
Verify(u, status) ==
    /\ Free
    /\ LET f == [NewFrame("verify", u) EXCEPT !.status = status]
           hit == MarkSelectRows(referrals, u)
       IN IF status = "error"
          THEN inflight' = Enter([f EXCEPT !.at = "reply", !.out = "cannot_check"])
          ELSE IF ~IsMember(status)
          THEN inflight' = Enter([f EXCEPT !.at = "reply", !.out = "not_joined"])
          ELSE IF hit = {}
          THEN inflight' = Enter([f EXCEPT !.at = "reply", !.out = "verified"])
          ELSE \E row \in hit :
                 IF row.credited = 1
                 THEN inflight' = Enter([f EXCEPT !.at = "reply", !.out = "verified"])
                 ELSE inflight' = Enter([f EXCEPT !.at = "mark_update",
                                                  !.ref = Some(row.referrer_id)])
    /\ UNCHANGED <<catalog, users, referrals, redemptions, returned>>

\* mark_credited's UPDATE and commit, its return value, and cb_verify's
\* `if referrer_id:` up to get_balance's first read
MarkUpdate(f) ==
    /\ At(f, "mark_update")
    /\ referrals' = MarkUpdateRows(referrals, f.uid)
    /\ returned' = [returned EXCEPT ![f.uid] = Bump(@)]
    /\ inflight' = Move(f,
           IF Truthy(f.ref) THEN BalanceBegin(f, The(f.ref), referrals', redemptions)
                            ELSE [f EXCEPT !.at = "reply", !.out = "verified"],
           referrals', redemptions)
    /\ UNCHANGED <<catalog, users, redemptions>>

(* ------------------------ points_cmd, cb_points_button ----------------- *)
\* variant of the code: /points records the contact first, as /start does
PointsUpserting(u) ==
    /\ Free
    /\ users' = upsert_user(users, u, <<>>)
    /\ inflight' = Enter(BalanceBegin(NewFrame("points", u), u, referrals, redemptions))
    /\ UNCHANGED <<catalog, referrals, redemptions, returned>>

Points(u) ==
    /\ Free
    /\ inflight' = Enter(BalanceBegin(NewFrame("points", u), u, referrals, redemptions))
    /\ UNCHANGED <<catalog, users, referrals, redemptions, returned>>

(* ------------------------------ cb_redeem ------------------------------ *)
\* cb_redeem up to get_balance's first read
Redeem(u, code) ==
    /\ Free
    /\ LET f == [NewFrame("redeem", u) EXCEPT !.code = code]
       IN IF code \notin DOMAIN catalog
          THEN inflight' = Enter([f EXCEPT !.at = "reply", !.out = "reward_not_found"])
          ELSE inflight' = Enter(
                 [BalanceBegin(f, u, referrals, redemptions) EXCEPT
                    !.afford = Balance(get_earned(u), get_spent(u)) >= catalog[code].cost])
    /\ UNCHANGED <<catalog, users, referrals, redemptions, returned>>

\* SELECT 1 FROM redemptions WHERE user_id=? AND reward_code=? LIMIT 1
RedeemedBefore(reds, u, code) ==
    \E r \in BagToSet(reds) : r.user_id = u /\ r.reward_code = code

\* the existence check and the two early returns that follow it
RedeemExists(f) ==
    /\ At(f, "redeem_exists")
    /\ LET reward == catalog[f.code]
           exists == RedeemedBefore(redemptions, f.uid, f.code)
           g == [f EXCEPT !.exists = exists]
       IN inflight' = Move(f,
            IF exists /\ ~reward.repeatable THEN [g EXCEPT !.at = "reply", !.out = "already_unlocked"]
            ELSE IF f.balance < reward.cost THEN [g EXCEPT !.at = "reply", !.out = "not_enough"]
            ELSE [g EXCEPT !.at = "redeem_insert"],
            referrals, redemptions)
    /\ UNCHANGED <<catalog, users, referrals, redemptions, returned>>

\* variant of the code: table redemptions without its UNIQUE constraint
NoUniqueConstraint(reds, u, code) == FALSE

\* variant of the code: the constraint kept for non-repeatable rewards only
UniqueWhenNotRepeatable(reds, u, code) ==
    /\ ~catalog[code].repeatable
    /\ \E r \in BagToSet(reds) : r.user_id = u /\ r.reward_code = code

\* UNIQUE(user_id, reward_code) of table redemptions: whether the INSERT raises
UniqueViolation(reds, u, code) ==
    \E r \in BagToSet(reds) : r.user_id = u /\ r.reward_code = code

\* variant of the code: the except branch falls through to the payload
InsertRaisedFallsThrough(f) ==
    [f EXCEPT !.at = "reply", !.out = "already_redeemed", !.payload = catalog[f.code].payload]

\* except Exception: reply "already redeemed"; return
InsertRaised(f) == [f EXCEPT !.at = "reply", !.out = "already_redeemed"]

\* variant of the code: the record written with cost 0
InsertRecordFree(reds, u, code, cost) ==
    reds (+) SetToBag({[user_id |-> u, reward_code |-> code, cost |-> 0]})

\* INSERT INTO redemptions(user_id, reward_code, cost) VALUES (?, ?, ?); commit
InsertRecord(reds, u, code, cost) ==
    reds (+) SetToBag({[user_id |-> u, reward_code |-> code, cost |-> cost]})

\* variant of the code: the last reply without the payload
UnlockedNoPayload(f) == [f EXCEPT !.at = "reply", !.out = "unlocked"]

\* the last reply: "Unlocked!" and reward['payload']
Unlocked(f) ==
    [f EXCEPT !.at = "reply", !.out = "unlocked", !.payload = catalog[f.code].payload]

\* INSERT INTO redemptions ...; commit; or the except branch
RedeemInsert(f) ==
    /\ At(f, "redeem_insert")
    /\ IF UniqueViolation(redemptions, f.uid, f.code)
       THEN /\ redemptions' = redemptions
            /\ inflight' = Move(f, InsertRaised(f), referrals, redemptions)
       ELSE /\ redemptions' = InsertRecord(redemptions, f.uid, f.code, catalog[f.code].cost)
            /\ inflight' = Move(f, Unlocked(f), referrals, redemptions')
    /\ UNCHANGED <<catalog, users, referrals, returned>>

(* ------------------------------ admin reports ------------------------- *)
\* The admin commands first ask is_channel_admin; `admin` is its answer.
\* Labels and the page footer are text only and are left out of the rows.

\* /table [page] [size]: page = max(int, 1), else 1
TablePage(args) == IF Len(args) >= 1 /\ ParseInt(args[1]) # None
                   THEN Max(The(ParseInt(args[1])), 1) ELSE 1
\* size = min(max(int, 1), 200), else 20
TableSize(args) == IF Len(args) >= 2 /\ ParseInt(args[2]) # None
                   THEN Min(Max(The(ParseInt(args[2])), 1), 200) ELSE 20

\* the row the two LEFT JOINs give for a row of users
LeaderRow(u) ==
    [user_id |-> u, username |-> users[u][1], earned |-> get_earned(u),
     spent |-> get_spent(u), balance |-> get_earned(u) - get_spent(u)]
LeaderRows == {LeaderRow(u) : u \in {v \in UserIds : users[v] # <<>>}}

\* all orders of the rows of S
Perms(S) ==
    {s \in [1..Cardinality(S) -> S] : \A i, j \in 1..Cardinality(S) : i # j => s[i] # s[j]}

\* The orders of S an ORDER BY allows: no row stands before one that the
\* ORDER BY puts ahead of it; rows it does not tell apart come in any order.

\* ORDER BY balance DESC, earned DESC, u.user_id ASC
TableBefore(a, b) ==
    \/ a.balance > b.balance
    \/ a.balance = b.balance /\ a.earned > b.earned
    \/ a.balance = b.balance /\ a.earned = b.earned /\ a.user_id < b.user_id

\* ORDER BY balance DESC, earned DESC
ExportBefore(a, b) ==
    \/ a.balance > b.balance
    \/ a.balance = b.balance /\ a.earned > b.earned

TableOrders(S) ==
    {s \in Perms(S) : \A i, j \in 1..Len(s) : i < j => ~TableBefore(s[j], s[i])}
ExportOrders(S) ==
    {s \in Perms(S) : \A i, j \in 1..Len(s) : i < j => ~ExportBefore(s[j], s[i])}

\* LIMIT size OFFSET offset
LimitOffset(s, size, offset) == SubSeq(s, offset + 1, Min(Len(s), offset + size))

table_cmd(admin, args) ==
    /\ Free
    /\ IF ~admin
       THEN inflight' = Enter([NewFrame("table", 0) EXCEPT !.at = "reply", !.out = "admins_only"])
       ELSE \E s \in TableOrders(LeaderRows) :
              inflight' = Enter([NewFrame("table", 0) EXCEPT !.at = "reply", !.out = "table",
                  !.page = TablePage(args), !.size = TableSize(args),
                  !.rows = LimitOffset(s, TableSize(args), (TablePage(args) - 1) * TableSize(args))])
    /\ UNCHANGED <<catalog, users, referrals, redemptions, returned>>

exportcsv_cmd(admin) ==
    /\ Free
    /\ IF ~admin
       THEN inflight' = Enter([NewFrame("export", 0) EXCEPT !.at = "reply", !.out = "admins_only"])
       ELSE \E s \in ExportOrders(LeaderRows) :
              inflight' = Enter([NewFrame("export", 0) EXCEPT !.at = "reply", !.out = "csv", !.rows = s])
    /\ UNCHANGED <<catalog, users, referrals, redemptions, returned>>

\* /allpoints [N]: limit = min(max(int, 1), 200), else 50
AllPointsLimit(args) == IF Len(args) >= 1 /\ ParseInt(args[1]) # None
                        THEN Min(Max(The(ParseInt(args[1])), 1), 200) ELSE 50

\* SELECT referrer_id, COUNT(*) AS earned FROM referrals WHERE credited=1
\* GROUP BY referrer_id
EarnedRows ==
    {[user_id |-> u, earned |-> get_earned(u)] :
        u \in {r.referrer_id : r \in {x \in RefRows : x.credited = 1}}}

\* ORDER BY earned DESC
EarnedBefore(a, b) == a.earned > b.earned
EarnedOrders(S) ==
    {s \in Perms(S) : \A i, j \in 1..Len(s) : i < j => ~EarnedBefore(s[j], s[i])}

\* allpoints_cmd up to and including the first SELECT
allpoints_cmd(admin, args) ==
    /\ Free
    /\ IF ~admin
       THEN inflight' = Enter([NewFrame("allpoints", 0) EXCEPT !.at = "reply", !.out = "admins_only"])
       ELSE \E s \in EarnedOrders(EarnedRows) :
              inflight' = Enter([NewFrame("allpoints", 0) EXCEPT !.at = "allpoints_spent",
                                    !.rows = LimitOffset(s, AllPointsLimit(args), 0)])
    /\ UNCHANGED <<catalog, users, referrals, redemptions, returned>>

\* the second SELECT (spent_map) and the lines built from both
AllPointsSpent(f) ==
    /\ At(f, "allpoints_spent")
    /\ inflight' = Move(f,
         IF f.rows = <<>> THEN [f EXCEPT !.at = "reply", !.out = "no_referrals"]
         ELSE [f EXCEPT !.at = "reply", !.out = "allpoints",
                 !.rows = [i \in 1..Len(f.rows) |->
                    [user_id |-> f.rows[i].user_id, earned |-> f.rows[i].earned,
                     spent |-> get_spent(f.rows[i].user_id),
                     balance |-> Max(0, f.rows[i].earned - get_spent(f.rows[i].user_id))]]],
         referrals, redemptions)
    /\ UNCHANGED <<catalog, users, referrals, redemptions, returned>>

(* ------------------------------ top_cmd, recent_cmd -------------------- *)
\* LIMIT 10 of /top
TopLimit == 10

\* /top: the credited counts per referrer, ORDER BY pts DESC LIMIT 10
top_cmd ==
    /\ Free
    /\ \E s \in EarnedOrders(EarnedRows) :
          inflight' = Enter(
             IF s = <<>> THEN [NewFrame("top", 0) EXCEPT !.at = "reply", !.out = "no_referrals"]
             ELSE [NewFrame("top", 0) EXCEPT !.at = "reply", !.out = "top",
                                             !.rows = LimitOffset(s, TopLimit, 0)])
    /\ UNCHANGED <<catalog, users, referrals, redemptions, returned>>

\* /recent [N]: limit = min(max(int, 1), 200), else 30
RecentLimit(args) == IF Len(args) >= 1 /\ ParseInt(args[1]) # None
                     THEN Min(Max(The(ParseInt(args[1])), 1), 200) ELSE 30

\* SELECT created_at, referrer_id, referee_id FROM referrals WHERE credited=1
CreditedRows ==
    {[referrer_id |-> r.referrer_id, referee_id |-> r.referee_id] :
        r \in {x \in RefRows : x.credited = 1}}

\* /recent: ORDER BY created_at DESC LIMIT ?.  The store of the model keeps
\* no created_at, so the rows come in any order.
recent_cmd(admin, args) ==
    /\ Free
    /\ IF ~admin
       THEN inflight' = Enter([NewFrame("recent", 0) EXCEPT !.at = "reply", !.out = "admins_only"])
       ELSE \E s \in Perms(CreditedRows) :
              inflight' = Enter(
                 IF s = <<>> THEN [NewFrame("recent", 0) EXCEPT !.at = "reply", !.out = "no_credited"]
                 ELSE [NewFrame("recent", 0) EXCEPT !.at = "reply", !.out = "recent",
                                                    !.rows = LimitOffset(s, RecentLimit(args), 0)])
    /\ UNCHANGED <<catalog, users, referrals, redemptions, returned>>

(* --------------------- resolve_target_user, whoinvited_cmd ------------- *)
\* the row of users with this user_id: <<>> when there is none
UserRow(uid) == IF uid \in DOMAIN users THEN users[uid] ELSE <<>>

\* label = f"@{uname}" if uname else f"User {uid}"
Label(uid, uname) == [placeholder |-> uname = <<>>, handle |-> uname, uid |-> uid]

\* resolve_target_user(arg): the values it can return, None or Some of
\* (uid, label).  The handle SELECT has LIMIT 1 and no ORDER BY, so any of
\* the matching rows can be the one fetched.
resolve_target_user(arg) ==
    IF arg = <<>> THEN {None}
    ELSE IF arg[1] = "@"
    THEN LET uname == Lower(Tail(arg))
             hits == {u \in UserIds : users[u] # <<>> /\ Lower(users[u][1]) = uname}
         IN IF hits = {} THEN {None}
            ELSE {Some([uid |-> u, label |-> Label(u, users[u][1])]) : u \in hits}
    ELSE IF ParseInt(arg) = None THEN {None}
    ELSE LET uid == The(ParseInt(arg))
             row == UserRow(uid)
             uname == IF row # <<>> THEN row[1] ELSE <<>>
         IN {Some([uid |-> uid, label |-> Label(uid, uname)])}

\* whoinvited_cmd up to and including resolve_target_user; target is the one
\* argument
whoinvited_cmd(admin, args) ==
    /\ Free
    /\ LET f == NewFrame("whoinvited", 0)
       IN IF ~admin
          THEN inflight' = Enter([f EXCEPT !.at = "reply", !.out = "admins_only"])
          ELSE IF args = <<>>
          THEN inflight' = Enter([f EXCEPT !.at = "reply", !.out = "usage"])
          ELSE \E res \in resolve_target_user(args[1]) :
                 inflight' = Enter(
                    IF res = None
                    THEN [f EXCEPT !.at = "reply", !.out = "not_found", !.arg = args[1]]
                    ELSE [f EXCEPT !.at = "whoinvited_edge", !.arg = args[1], !.resolved = res])
    /\ UNCHANGED <<catalog, users, referrals, redemptions, returned>>

\* SELECT referrer_id, created_at, credited FROM referrals WHERE referee_id=?
\* and the reply built from it
WhoInvitedEdge(f) ==
    /\ At(f, "whoinvited_edge")
    /\ LET hit == MarkSelectRows(referrals, The(f.resolved).uid)
       IN IF hit = {}
          THEN inflight' = Move(f, [f EXCEPT !.at = "reply", !.out = "no_referral_record"],
                                referrals, redemptions)
          ELSE \E row \in hit :
                 inflight' = Move(f,
                    [f EXCEPT !.at = "reply", !.ref = Some(row.referrer_id),
                              !.out = IF row.credited = 1 THEN "invited_credited"
                                                          ELSE "invited_pending"],
                    referrals, redemptions)
    /\ UNCHANGED <<catalog, users, referrals, redemptions, returned>>

(* ------------------- get_balance's second read, and the return --------- *)
GetSpent(f) ==
    /\ At(f, "get_spent")
    /\ LET g == BalanceEnd(f)
       IN inflight' = Move(f,
            CASE f.op = "redeem" -> [g EXCEPT !.at = "redeem_exists"]
              [] f.op = "verify" -> [g EXCEPT !.at = "reply", !.out = "verified"]
              [] OTHER -> [g EXCEPT !.at = "reply", !.out = "points"],
            referrals, redemptions)
    /\ UNCHANGED <<catalog, users, referrals, redemptions, returned>>

\* the handler returns after its reply
Return(f) ==
    /\ f \in Running
    /\ f.at = "reply"
    /\ inflight' = inflight (-) SetToBag({f})
    /\ UNCHANGED <<catalog, users, referrals, redemptions, returned>>

(* ------------------------------ the system ----------------------------- *)
\* init_db() on a new file: three empty tables; REWARDS is one of `cats`
InitWith(cats) ==
    /\ catalog \in cats
    /\ users = [u \in UserIds |-> <<>>]
    /\ referrals = EmptyBag
    /\ redemptions = EmptyBag
    /\ inflight = EmptyBag
    /\ returned = [u \in UserIds |-> 0]

\* the argument lists of /start: none, or one of `args`
ArgLists(args) == {<<>>} \cup {<<a>> : a \in args}

(* The referral ledger under concurrent updates: any user starts through any
   link and verifies. *)
LedgerNext ==
    \/ \E u \in UserIds, n \in Usernames, a \in ArgLists(StartArgs) : Start(u, n, a)
    \/ \E u \in UserIds, s \in ChatStatuses : Verify(u, s)
    \/ \E f \in Running : AddPendingReferral(f)
    \/ \E f \in Running : MarkUpdate(f)
    \/ \E f \in Running : GetSpent(f)
    \/ \E f \in Running : Return(f)

SpecLedger == InitWith({CatalogSource}) /\ [][LedgerNext]_vars

\* the users who collect and spend points in SpecRedeem, and their links
Spenders == {1001}
SpenderLinks == {<<"1","0","0","1">>}

\* arguments of /table and /allpoints
TableArgs == {<<>>, << <<"2">>, <<"2">> >>, << <<"0">>, <<"x">> >>}
AllPointsArgs == {<<>>, << <<"1">> >>}

(* Redemption under concurrent updates: users arrive through the spenders'
   links and verify; the spenders read their balance and redeem; an admin
   reads the reports. *)
RedeemNext ==
    \/ \E u \in UserIds, n \in Usernames, a \in ArgLists(SpenderLinks) : Start(u, n, a)
    \/ \E u \in UserIds, s \in ChatStatuses : Verify(u, s)
    \/ \E u \in Spenders : Points(u)
    \/ \E u \in Spenders, c \in RedeemCodes : Redeem(u, c)
    \/ \E admin \in BOOLEAN, a \in TableArgs : table_cmd(admin, a)
    \/ \E admin \in BOOLEAN : exportcsv_cmd(admin)
    \/ \E admin \in BOOLEAN, a \in AllPointsArgs : allpoints_cmd(admin, a)
    \/ \E f \in Running : AddPendingReferral(f)
    \/ \E f \in Running : MarkUpdate(f)
    \/ \E f \in Running : GetSpent(f)
    \/ \E f \in Running : RedeemExists(f)
    \/ \E f \in Running : RedeemInsert(f)
    \/ \E f \in Running : AllPointsSpent(f)
    \/ \E f \in Running : Return(f)

SpecRedeem == InitWith(Catalogs) /\ [][RedeemNext]_vars

(* Every handler, any user and any argument, one update at a time: the
   dispatcher as Application.builder().build() configures it awaits each
   handler before it takes the next update. *)
SeqNext ==
    \/ inflight = EmptyBag /\ \E u \in UserIds, n \in Usernames, a \in ArgLists(StartArgs) : Start(u, n, a)
    \/ inflight = EmptyBag /\ \E u \in UserIds, s \in ChatStatuses : Verify(u, s)
    \/ inflight = EmptyBag /\ \E u \in UserIds : Points(u)
    \/ inflight = EmptyBag /\ \E u \in UserIds, c \in RedeemCodes : Redeem(u, c)
    \/ inflight = EmptyBag /\ \E admin \in BOOLEAN, a \in TableArgs : table_cmd(admin, a)
    \/ inflight = EmptyBag /\ \E admin \in BOOLEAN : exportcsv_cmd(admin)
    \/ inflight = EmptyBag /\ \E admin \in BOOLEAN, a \in AllPointsArgs : allpoints_cmd(admin, a)
    \/ \E f \in Running : AddPendingReferral(f)
    \/ \E f \in Running : MarkUpdate(f)
    \/ \E f \in Running : GetSpent(f)
    \/ \E f \in Running : RedeemExists(f)
    \/ \E f \in Running : RedeemInsert(f)
    \/ \E f \in Running : AllPointsSpent(f)
    \/ \E f \in Running : Return(f)

SpecSeq == InitWith(Catalogs) /\ [][SeqNext]_vars

(* The identity store and /whoinvited, one update at a time: users arrive
   with any handle, through a spender's link or none, and verify; an admin
   looks users up. *)
ResolveNext ==
    \/ inflight = EmptyBag /\ \E u \in UserIds, n \in Handles, a \in ArgLists(SpenderLinks) : Start(u, n, a)
    \/ inflight = EmptyBag /\ \E u \in UserIds, s \in ChatStatuses : Verify(u, s)
    \/ inflight = EmptyBag /\ \E admin \in BOOLEAN, a \in ArgLists(Targets) : whoinvited_cmd(admin, a)
    \/ \E f \in Running : AddPendingReferral(f)
    \/ \E f \in Running : MarkUpdate(f)
    \/ \E f \in Running : GetSpent(f)
    \/ \E f \in Running : WhoInvitedEdge(f)
    \/ \E f \in Running : Return(f)

SpecResolve == InitWith({CatalogSource}) /\ [][ResolveNext]_vars

\* the handles users carry in SpecReads: none, or "Ann"
ReadHandles == {<<>>, <<"A","n","n">>}

\* the references an admin looks up in SpecReads
ReadTargets == {<<"@","A","N","N">>, <<"@","b","o","b">>, <<"1","0","0","1">>, <<"9","9">>}

(* The read operations among concurrent updates: users arrive with any
   handle through a spender's link and verify, the spenders redeem, and
   balances, the leaderboards, /recent, /whoinvited, the table and the export
   are read while those are in flight. *)
ReadsNext ==
    \/ \E u \in UserIds, n \in ReadHandles, a \in ArgLists(SpenderLinks) : Start(u, n, a)
    \/ \E u \in UserIds, s \in {"member", "left"} : Verify(u, s)
    \/ \E u \in Spenders, c \in RedeemCodes : Redeem(u, c)
    \/ \E u \in Spenders : Points(u)
    \/ top_cmd
    \/ \E admin \in BOOLEAN, a \in AllPointsArgs : recent_cmd(admin, a)
    \/ \E admin \in BOOLEAN, a \in ArgLists(ReadTargets) : whoinvited_cmd(admin, a)
    \/ \E admin \in BOOLEAN, a \in TableArgs : table_cmd(admin, a)
    \/ \E admin \in BOOLEAN : exportcsv_cmd(admin)
    \/ \E admin \in BOOLEAN, a \in AllPointsArgs : allpoints_cmd(admin, a)
    \/ \E f \in Running : AddPendingReferral(f)
    \/ \E f \in Running : MarkUpdate(f)
    \/ \E f \in Running : GetSpent(f)
    \/ \E f \in Running : RedeemExists(f)
    \/ \E f \in Running : RedeemInsert(f)
    \/ \E f \in Running : AllPointsSpent(f)
    \/ \E f \in Running : WhoInvitedEdge(f)
    \/ \E f \in Running : Return(f)

SpecReads == InitWith({CatalogTwo}) /\ [][ReadsNext]_vars

(* ======================= properties of the ledger ====================== *)
\* rows of `refs` for referee x, and the credited ones, counted with copies
EdgeCount(refs, x) ==
    LET S == {r \in BagToSet(refs) : r.referee_id = x}
    IN SumOver(S, [r \in S |-> CopiesIn(r, refs)])
CreditCount(refs, x) ==
    LET S == {r \in BagToSet(refs) : r.referee_id = x /\ r.credited = 1}
    IN SumOver(S, [r \in S |-> CopiesIn(r, refs)])
\* the referees whose edge under referrer u is credited
CreditedUnder(refs, u) ==
    {x \in UserIds : \E r \in BagToSet(refs) :
        r.referee_id = x /\ r.referrer_id = u /\ r.credited = 1}
\* records of (u, code), counted with copies
RecordCount(reds, u, code) ==
    LET S == {r \in BagToSet(reds) : r.user_id = u /\ r.reward_code = code}
    IN SumOver(S, [r \in S |-> CopiesIn(r, reds)])

\* this step is taken by the coroutine suspended at f
Stepped(f) == f \in Running /\ CopiesIn(f, inflight') < CopiesIn(f, inflight)

\* the same, leaving out a get_balance call that only saw the store change
\* under it while another coroutine took the step
Took(f) ==
    /\ Stepped(f)
    /\ ~(/\ f.at = "get_spent"
         /\ CopiesIn(Observed(f, referrals', redemptions'), inflight')
               > CopiesIn(Observed(f, referrals', redemptions'), inflight))

\* the frames of handlers that have just replied
Replies == {f \in Running : f.at = "reply"}

\* the handlers called in this step: only with no handler in flight before
Called == IF inflight = EmptyBag THEN BagToSet(inflight') ELSE {}

\* no table changes in this step
TablesUnchanged == users' = users /\ referrals' = referrals /\ redemptions' = redemptions

\* the handlers called in this step, with others in flight or not
Entered ==
    IF BagCardinality(inflight') > BagCardinality(inflight)
    THEN {g \in BagToSet(inflight') : CopiesIn(g, inflight') > CopiesIn(g, inflight)}
    ELSE {}

\* the frames that entered "reply" in this step
NewReplies == {g \in BagToSet(inflight') : g.at = "reply" /\ CopiesIn(g, inflight') > CopiesIn(g, inflight)}

\* C1: for every referee, exactly one mark_credited call returns a referrer id
\* once the referee's edge is credited, and none before: concurrent
\* verifications of one referee never both return the referrer.
C1_ExactlyOneReturn ==
    \A x \in UserIds : returned[x] = IF CreditCount(referrals, x) > 0 THEN 1 ELSE 0

\* C2: at most one credit per referee.  In every step each referee holds at
\* most one credited row, earned(u) is the number of u's credited referees,
\* and earned changes only in the UPDATE of a verification of a referee whose
\* edge was pending: by exactly 1, for that edge's referrer and nobody else.
C2_OneCreditPerReferee ==
    [][ /\ \A x \in UserIds : CreditCount(referrals', x) <= 1
        /\ \A u \in UserIds : EarnedIn(referrals', u) = Cardinality(CreditedUnder(referrals', u))
        /\ \A u \in UserIds :
             EarnedIn(referrals', u) # EarnedIn(referrals, u) =>
               \E f \in Running :
                 /\ f.at = "mark_update" /\ Stepped(f) /\ f.ref = Some(u)
                 /\ CreditCount(referrals, f.uid) = 0 /\ CreditCount(referrals', f.uid) = 1
                 /\ EarnedIn(referrals', u) = EarnedIn(referrals, u) + 1
                 /\ \A v \in UserIds \ {u} : EarnedIn(referrals', v) = EarnedIn(referrals, v)
      ]_vars

\* C2's case: a referee verified twice, both calls past their UPDATE, and the
\* referrer's earned is 1
C2_Witness ==
    \E x \in UserIds : /\ returned[x] = 2
                       /\ \E r \in RefRows : r.referee_id = x /\ get_earned(r.referrer_id) = 1

\* C6: first touch wins.  Each referee has at most one edge; an existing edge
\* keeps its referrer in every step and its credited flag in every step of an
\* add_pending_referral; and a verification that returns a referrer returns
\* the referrer of the referee's one edge, the only user whose earned moves.
C6_FirstTouchWins ==
    [][ /\ \A x \in UserIds : EdgeCount(referrals', x) <= 1
        /\ \A r \in RefRows : \E r2 \in BagToSet(referrals') :
             r2.referee_id = r.referee_id /\ r2.referrer_id = r.referrer_id
        /\ \A f \in Running :
             (f.at = "add_pending_referral" /\ Stepped(f) /\ EdgeCount(referrals, f.uid) > 0)
                => referrals' = referrals
        /\ \A f \in Running :
             (f.at = "mark_update" /\ Stepped(f)) =>
                /\ \A r \in RefRows : r.referee_id = f.uid => f.ref = Some(r.referrer_id)
                /\ \A b \in UserIds : f.ref # Some(b) => EarnedIn(referrals', b) = EarnedIn(referrals, b)
      ]_vars

\* C6's case: a later start of X through B's link has replied while X's edge
\* is the earlier one under A
C6_Witness ==
    \E f \in Replies :
        /\ f.op = "start" /\ f.ref # None /\ f.ref # Some(f.uid)
        /\ \E r \in RefRows : r.referee_id = f.uid /\ f.ref # Some(r.referrer_id)

\* C7: no self-credit.  No step leaves a row with referrer_id = referee_id,
\* and the add_pending_referral of a user's own link changes no table.
C7_NoSelfCredit ==
    [][ /\ \A r \in BagToSet(referrals') : r.referrer_id # r.referee_id
        /\ \A f \in Running :
             (f.at = "add_pending_referral" /\ Stepped(f) /\ f.ref = Some(f.uid))
                => /\ referrals' = referrals /\ redemptions' = redemptions /\ users' = users
                   /\ EarnedIn(referrals', f.uid) = EarnedIn(referrals, f.uid)
      ]_vars

\* C7's case: a start through the user's own link has replied
C7_Witness ==
    \E f \in Replies : f.op = "start" /\ f.ref = Some(f.uid)

(* ===================== properties of the redemptions =================== *)
\* the outcomes of cb_redeem that say "already redeemed": the early return
\* after the existence check, and the except branch of the INSERT
AlreadyRedeemed == {"already_unlocked", "already_redeemed"}

\* replies of cb_redeem for a reward of the catalog
RedeemReplies == {f \in Replies : f.op = "redeem" /\ f.code \in DOMAIN catalog}

\* all of u's redemption records are for `code`
SpendsOnlyOn(u, code) == \A r \in RedRows : r.user_id = u => r.reward_code = code

\* C3: redemption exclusivity.  A redeem(U, R) of a non-repeatable R that was
\* called while available(U) >= cost(R), with U spending on no other reward,
\* ends in success or in an already-redeemed outcome; when it has replied
\* exactly one record (U, R) exists, spent(U) = cost(R), and the payload went
\* out with the success only.  No (U, R) of a non-repeatable R has two records.
C3_RedemptionExclusive ==
    /\ \A u \in UserIds, c \in DOMAIN catalog :
         ~catalog[c].repeatable => RecordCount(redemptions, u, c) <= 1
    /\ \A f \in RedeemReplies :
         (~catalog[f.code].repeatable /\ f.afford /\ SpendsOnlyOn(f.uid, f.code)) =>
            /\ f.out \in {"unlocked"} \cup AlreadyRedeemed
            /\ RecordCount(redemptions, f.uid, f.code) = 1
            /\ get_spent(f.uid) = catalog[f.code].cost
            /\ f.payload = IF f.out = "unlocked" THEN catalog[f.code].payload ELSE ""

\* C3's case: of two concurrent redeems that both passed the existence check,
\* the second one's INSERT hit the UNIQUE constraint
C3_Witness ==
    \E f \in RedeemReplies :
        /\ ~catalog[f.code].repeatable /\ f.afford /\ SpendsOnlyOn(f.uid, f.code)
        /\ f.out = "already_redeemed" /\ ~f.exists

\* C4: affordability gate.  With one update at a time, a redeem(U, R) not
\* blocked by the already-redeemed rule (R repeatable, or no record (U, R)
\* found) ends in InsufficientBalance when available(U) < cost(R) at the call
\* and otherwise in success with the payload and a new record.
C4_AffordabilityGate ==
    \A f \in RedeemReplies :
        (catalog[f.code].repeatable \/ ~f.exists) =>
            IF f.afford
            THEN /\ f.out = "unlocked" /\ f.payload = catalog[f.code].payload
                 /\ RecordCount(redemptions, f.uid, f.code) = 1 + (IF f.exists THEN 1 ELSE 0)
            ELSE f.out = "not_enough"

\* C5: a repeatable reward can be redeemed again: a redeem of a repeatable
\* reward that passes the balance gate adds its record, also when the user
\* holds one already; a non-repeatable (user, reward) never has two records.
C5_RepeatableHasManyRecords ==
    /\ \A u \in UserIds, c \in DOMAIN catalog :
         ~catalog[c].repeatable => RecordCount(redemptions, u, c) <= 1
    /\ \A f \in RedeemReplies :
         (catalog[f.code].repeatable /\ f.exists /\ f.balance >= catalog[f.code].cost) =>
            RecordCount(redemptions, f.uid, f.code) >= 2

\* C8: balance identity.  Every balance a handler reports is
\* max(0, earned - spent) of the earned and spent it reports with it.
C8_BalanceIdentity ==
    \A f \in Replies :
        /\ f.balance = Max(0, f.earned - f.spent)
        /\ \A i \in 1..Len(f.rows) :
             /\ f.rows[i].balance = Max(0, f.rows[i].earned - f.rows[i].spent)
             /\ f.rows[i].balance >= 0

\* the stores the scenario of C9 passes through
Edge(a, x, c) == [referrer_id |-> a, referee_id |-> x, credited |-> c]
OneCredited == SetToBag({Edge(1001, 2002, 1)})
SecondPending == SetToBag({Edge(1001, 2002, 1), Edge(1001, 2003, 0)})
BothCredited == SetToBag({Edge(1001, 2002, 1), Edge(1001, 2003, 1)})
VipRecord == SetToBag({[user_id |-> 1001, reward_code |-> "vip1", cost |-> 2]})

\* C9: the scenario, one update at a time, catalog {vip1: cost 2, not
\* repeatable}, from the empty store.  recordPendingReferral(1001, 2002) adds
\* the pending edge; the verification of 2002 credits it and returns 1001;
\* getBalance(1001) is then (1, 0, 1) and redeem(1001, vip1) answers not
\* enough, needed 2, available 1; the verification of 1001's second referee
\* 2003 returns 1001; getBalance(1001) is then (2, 0, 2), redeem(1001, vip1)
\* inserts the record and hands out the payload, and a further
\* redeem(1001, vip1) answers already redeemed.
C9_Scenario ==
    [][ catalog = CatalogOnce =>
        /\ \A f \in Running :
             (f.at = "add_pending_referral" /\ Stepped(f) /\ referrals = EmptyBag
                /\ f.uid = 2002 /\ f.ref = Some(1001))
             => referrals' = SetToBag({Edge(1001, 2002, 0)})
        /\ \A f \in Running :
             (f.at = "mark_update" /\ Stepped(f) /\ f.uid = 2002
                /\ referrals = SetToBag({Edge(1001, 2002, 0)}))
             => f.ref = Some(1001) /\ referrals' = OneCredited
        /\ \A f \in Running :
             (f.at = "mark_update" /\ Stepped(f) /\ f.uid = 2003 /\ referrals = SecondPending)
             => f.ref = Some(1001) /\ referrals' = BothCredited
        /\ \A f \in Running :
             (f.at = "redeem_insert" /\ Stepped(f) /\ f.uid = 1001 /\ f.code = "vip1"
                /\ referrals = BothCredited /\ redemptions = EmptyBag)
             => /\ redemptions' = VipRecord
                /\ \E g \in Replies' : g.op = "redeem" /\ g.out = "unlocked"
                                       /\ g.payload = "https://t.me/lexxis00"
        /\ \A f \in Replies' :
             (f.uid = 1001 /\ referrals' = OneCredited /\ redemptions' = EmptyBag) =>
                /\ f.op = "points" => <<f.earned, f.spent, f.balance>> = <<1, 0, 1>>
                /\ (f.op = "redeem" /\ f.code = "vip1") =>
                      f.out = "not_enough" /\ catalog[f.code].cost = 2 /\ f.balance = 1
        /\ \A f \in Replies' :
             (f.uid = 1001 /\ referrals' = BothCredited) =>
                /\ (f.op = "points" /\ redemptions' = EmptyBag)
                      => <<f.earned, f.spent, f.balance>> = <<2, 0, 2>>
                /\ (f.op = "redeem" /\ f.code = "vip1" /\ redemptions' = VipRecord /\ f.exists)
                      => f.out \in AlreadyRedeemed /\ f.payload = ""
      ]_vars

\* C9's case: the scenario's last step has replied
C9_Witness ==
    /\ catalog = CatalogOnce /\ referrals = BothCredited /\ redemptions = VipRecord
    /\ \E f \in Replies : f.op = "redeem" /\ f.uid = 1001 /\ f.exists /\ f.out \in AlreadyRedeemed

\* C10: every get_balance result is the (earned, spent) of one state the store
\* passed through during the call.
C10_SingleSnapshot ==
    \A f \in Running : ~f.torn

(* ==================== the life of an edge (C11, C15, C19, C20) ========= *)
\* C11: per-edge state machine.  In every step each edge of the store is
\* still there with the same referrer_id and referee_id, and with credited
\* the same or moved from 0 to 1: no edge is deleted or re-pointed, and a
\* credited edge stays credited.  An edge appears only as a pending one.
C11_EdgeStateMachine ==
    [][ /\ \A r \in RefRows : \E r2 \in BagToSet(referrals') :
             /\ r2.referrer_id = r.referrer_id /\ r2.referee_id = r.referee_id
             /\ r2.credited >= r.credited
        /\ \A x \in UserIds :
             /\ EdgeCount(referrals', x) >= EdgeCount(referrals, x)
             /\ CreditCount(referrals', x) >= CreditCount(referrals, x)
             /\ EdgeCount(referrals, x) = 0 => CreditCount(referrals', x) = 0
      ]_vars

\* C11's case: a referee whose edge is credited came back through a link and
\* the start has replied, and the referee was verified twice
C11_Witness ==
    \E f \in Replies :
        /\ f.op = "start" /\ Truthy(f.ref) /\ f.ref # Some(f.uid)
        /\ CreditCount(referrals, f.uid) = 1 /\ returned[f.uid] = 2

\* C15: a credited flag flips only in the UPDATE of a verification whose
\* membership check answered member, administrator or creator.  A
\* verification whose check raised ends in "cannot check, tap Verify again",
\* one whose check gave another status ends in "not joined yet": two
\* different replies, and in both no edge is credited and no table changes.
C15_CreditOnlyForMembers ==
    [][ /\ \A x \in UserIds :
             CreditCount(referrals', x) # CreditCount(referrals, x) =>
                \E f \in Running :
                    /\ f.op = "verify" /\ f.at = "mark_update" /\ Stepped(f) /\ f.uid = x
                    /\ f.status \in {"member", "administrator", "creator"}
        /\ \A g \in Entered :
             (g.op = "verify" /\ g.status \notin {"member", "administrator", "creator"}) =>
                /\ g.at = "reply"
                /\ g.out = IF g.status = "error" THEN "cannot_check" ELSE "not_joined"
                /\ TablesUnchanged /\ returned' = returned
        /\ \A f \in Running :
             (f.op = "verify" /\ f.status \notin {"member", "administrator", "creator"}
                /\ Stepped(f)) => TablesUnchanged /\ returned' = returned
      ]_vars

\* C15's case: the membership check of a referee with a pending edge raised,
\* the verification has replied, and the edge is still pending
C15_Witness ==
    \E f \in Replies :
        /\ f.op = "verify" /\ f.status = "error" /\ f.out = "cannot_check"
        /\ EdgeCount(referrals, f.uid) = 1 /\ CreditCount(referrals, f.uid) = 0

\* C19: an edge for referee X appears only in the add_pending_referral of X's
\* first contact: a start through a link by a user who had a users row before
\* the call adds no edge.
C19_EdgeOnlyOnFirstContact ==
    [][ /\ \A f \in Running :
             (f.at = "add_pending_referral" /\ Stepped(f) /\ f.known) => referrals' = referrals
        /\ \A x \in UserIds :
             EdgeCount(referrals', x) > EdgeCount(referrals, x) =>
                \E f \in Running : /\ f.op = "start" /\ f.at = "add_pending_referral"
                                    /\ Stepped(f) /\ f.uid = x /\ ~f.known
      ]_vars

\* the pending edges of referee x
PendingEdges(x) == {r \in RefRows : r.referee_id = x /\ r.credited = 0}

\* C20: no lost credit.  A verification of X whose membership check passed
\* and that is called while X's edge (A, X) is pending in the store reads that
\* edge, goes on to the UPDATE with A as its result, and when the UPDATE has
\* run the edge (A, X) is credited and the call has returned A.  A
\* verification of a referee with no edge or a credited edge returns nothing
\* and changes neither the tables nor what was returned.
C20_NoLostCredit ==
    [][ /\ \A g \in Entered :
             (g.op = "verify" /\ g.status \in {"member", "administrator", "creator"}) =>
                IF PendingEdges(g.uid) # {}
                THEN /\ g.at = "mark_update"
                     /\ \E r \in PendingEdges(g.uid) : g.ref = Some(r.referrer_id)
                ELSE /\ g.at = "reply" /\ g.out = "verified" /\ g.ref = None
                     /\ TablesUnchanged /\ returned' = returned
        /\ \A f \in Running :
             (f.at = "mark_update" /\ Stepped(f)) =>
                /\ f.ref # None
                /\ CopiesIn(Edge(The(f.ref), f.uid, 1), referrals') = 1
                /\ EdgeCount(referrals', f.uid) = 1
                /\ returned'[f.uid] = Bump(returned[f.uid])
                /\ \E g \in BagToSet(inflight') : g.op = "verify" /\ g.uid = f.uid
                                                   /\ g.ref = f.ref /\ g.who = The(f.ref)
      ]_vars

\* C20's case: the one verification of a referee with a pending edge has
\* replied, holding the referrer it returned, and the edge is credited
C20_Witness ==
    \E f \in Replies :
        /\ f.op = "verify" /\ f.ref # None /\ returned[f.uid] = 1
        /\ CopiesIn(Edge(The(f.ref), f.uid, 1), referrals) = 1

(* ============================ retries (C12) ============================ *)
\* C12: retry safety, one update at a time.  Calling an operation again once
\* its effect is in the store changes no table: a contact of a user whose row
\* holds the same handle; an add_pending_referral for a referee who has an
\* edge (or through the user's own link); a verification of a referee whose
\* edge is credited; any step of a redeem(U, R) when a record (U, R) exists,
\* repeatable or not, so no second spend is recorded.
C12_RetrySafe ==
    [][ /\ \A g \in Called :
             (g.op = "start" /\ users[g.uid] # <<>> /\ users'[g.uid] = users[g.uid])
                => TablesUnchanged
        /\ \A f \in Running :
             (f.at = "add_pending_referral" /\ Stepped(f)
                /\ (EdgeCount(referrals, f.uid) > 0 \/ f.ref = Some(f.uid)))
                => TablesUnchanged
        /\ \A g \in Called :
             (g.op = "verify" /\ CreditCount(referrals, g.uid) > 0)
                => TablesUnchanged /\ returned' = returned /\ g.at = "reply" /\ g.ref = None
        /\ \A g \in Called :
             (g.op = "redeem" /\ RecordCount(redemptions, g.uid, g.code) > 0)
                => TablesUnchanged
        /\ \A f \in Running :
             (f.op = "redeem" /\ Stepped(f) /\ RecordCount(redemptions, f.uid, f.code) > 0)
                => TablesUnchanged /\ get_spent(f.uid)' = get_spent(f.uid)
      ]_vars

\* C12's case: a second redeem of a repeatable reward, with the points for
\* it, has replied and the user still holds one record
C12_Witness ==
    \E f \in RedeemReplies :
        /\ catalog[f.code].repeatable /\ f.exists /\ f.afford
        /\ RecordCount(redemptions, f.uid, f.code) = 1

(* ============================ resolve (C13) ============================ *)
\* the users of the identity store a reference matches: the row with that
\* user_id, or the rows whose handle is the reference's without regard to case
Matching(arg) ==
    IF arg[1] = "@"
    THEN {u \in UserIds : users[u] # <<>> /\ Lower(users[u][1]) = Lower(Tail(arg))}
    ELSE {u \in UserIds : users[u] # <<>> /\ ParseInt(arg) = Some(u)}

\* C13: resolve returns nothing for a reference that matches no row of users
\* (a numeric id never contacted, a handle nobody holds), and for one that
\* matches, the user_id of a matching row.
C13_ResolveOnlyKnown ==
    \A f \in Running :
        (f.op = "whoinvited" /\ f.arg # <<>>) =>
            /\ Matching(f.arg) = {} => f.resolved = None /\ f.out = "not_found"
            /\ f.resolved # None => The(f.resolved).uid \in Matching(f.arg)

(* ================== outcomes of a redemption (C14, C16..C18) =========== *)
\* C14: when the INSERT of a redeem of a non-repeatable reward hits the
\* uniqueness constraint (a record (U, R) was committed after this call's
\* existence check found none), the call replies with the already-redeemed
\* outcome and no payload, the redemptions stay as they are, and the handler
\* returns like any other.
C14_ConstraintIsAlreadyRedeemed ==
    [][ \A f \in Running :
          (f.at = "redeem_insert" /\ Stepped(f) /\ ~catalog[f.code].repeatable
             /\ RecordCount(redemptions, f.uid, f.code) > 0)
          => /\ TablesUnchanged
             /\ \E g \in NewReplies :
                  /\ g = [f EXCEPT !.at = "reply", !.out = g.out, !.payload = g.payload]
                  /\ g.out \in AlreadyRedeemed /\ g.payload = ""
      ]_vars

\* C14's case: a redeem whose existence check found nothing has replied
\* already redeemed, and the one record is the other call's
C14_Witness ==
    \E f \in RedeemReplies :
        /\ ~catalog[f.code].repeatable /\ ~f.exists /\ f.out = "already_redeemed"
        /\ f.payload = "" /\ RecordCount(redemptions, f.uid, f.code) = 1

\* C16: no overspend.  In every state, for every user, spent <= earned.
C16_NoOverspend ==
    \A u \in UserIds : get_spent(u) <= get_earned(u)

\* the outcomes of cb_redeem other than success
RedeemFailures == {"reward_not_found", "not_enough"} \cup AlreadyRedeemed

\* C17: a redeem that ends in reward-not-found, already-redeemed or
\* not-enough-points changes no table in any of its steps and replies without
\* a payload.  A record appears only in the step in which a redeem of that
\* user and reward replies with success, with the catalog's cost; and no
\* record is ever changed or removed.
C17_FailuresChangeNothing ==
    [][ /\ \A g \in NewReplies :
             (g.op = "redeem" /\ g.out \in RedeemFailures) => TablesUnchanged /\ g.payload = ""
        /\ \A f \in Running :
             (f.op = "redeem" /\ Took(f) /\ ~TablesUnchanged) =>
                \E g \in NewReplies : g.op = "redeem" /\ g.out = "unlocked"
        /\ \A g \in Entered : g.op = "redeem" => TablesUnchanged
        /\ \A g \in NewReplies : g.op = "redeem" => g.out \in RedeemFailures \cup {"unlocked"}
        /\ \A r \in BagToSet(redemptions) : CopiesIn(r, redemptions') >= CopiesIn(r, redemptions)
        /\ \A r \in BagToSet(redemptions') :
             CopiesIn(r, redemptions') > CopiesIn(r, redemptions) =>
                /\ r.reward_code \in DOMAIN catalog /\ r.cost = catalog[r.reward_code].cost
                /\ \E g \in NewReplies : /\ g.op = "redeem" /\ g.out = "unlocked"
                                          /\ g.uid = r.user_id /\ g.code = r.reward_code
      ]_vars

\* C17's case: a user who holds a record was refused another reward for lack
\* of points, and the refusal has replied
C17_Witness ==
    \E f \in RedeemReplies :
        /\ f.out = "not_enough" /\ f.payload = ""
        /\ get_spent(f.uid) > 0 /\ RecordCount(redemptions, f.uid, f.code) = 0

\* the payloads handed out in this step for reward c to user u
Deliveries(u, c) ==
    {g \in NewReplies : g.op = "redeem" /\ g.uid = u /\ g.code = c /\ g.payload # ""}

\* C18: payload if and only if record.  In every step the records of
\* (user, reward) grow by the number of payloads handed out for (user, reward)
\* in that step, so the two counts are equal in every state; the payload
\* handed out is the catalog entry's.
C18_PayloadIffRecord ==
    [][ /\ \A u \in UserIds, c \in RedeemCodes :
             RecordCount(redemptions', u, c) =
                RecordCount(redemptions, u, c) + Cardinality(Deliveries(u, c))
        /\ \A g \in NewReplies :
             (g.op = "redeem" /\ (g.payload # "" \/ g.out = "unlocked")) =>
                g.out = "unlocked" /\ g.payload = catalog[g.code].payload
      ]_vars

\* C18's case: a user's second reward has been handed out
C18_Witness ==
    \E f \in RedeemReplies :
        /\ f.out = "unlocked" /\ f.payload = catalog[f.code].payload
        /\ \E c \in DOMAIN catalog : c # f.code /\ RecordCount(redemptions, f.uid, c) = 1
        /\ RecordCount(redemptions, f.uid, f.code) = 1

(* ========================= the reads (C21, C22) ======================== *)
\* the handlers that only read: /points and the points button, /top,
\* /recent, /whoinvited (resolve and the referral detail), /table,
\* /exportcsv, /allpoints
ReadOps == {"points", "top", "recent", "whoinvited", "table", "export", "allpoints"}

\* C21: reads do not mutate.  No step of a read handler, from its call to
\* its reply, and no read of a get_balance inside any handler, changes the
\* users, the referrals, the redemptions or the catalog, whatever its
\* arguments and its result.
C21_ReadsDoNotMutate ==
    [][ /\ \A g \in Entered : g.op \in ReadOps => TablesUnchanged /\ catalog' = catalog
        /\ \A f \in Running :
             (f.op \in ReadOps /\ Took(f)) => TablesUnchanged /\ catalog' = catalog
        /\ \A f \in Running :
             (f.at = "get_spent" /\ Took(f)) => TablesUnchanged /\ catalog' = catalog
      ]_vars

\* C21's case: with a credited edge and a record in the store, the export
\* has replied with two rows or more
C21_Witness ==
    \E f \in Replies :
        /\ f.op = "export" /\ f.out = "csv" /\ Len(f.rows) >= 2
        /\ redemptions # EmptyBag /\ \E r \in RefRows : r.credited = 1

\* available of a row of the leaderboard
Available(row) == Max(0, row.earned - row.spent)

\* available descending, then earned descending, then user_id ascending
ListedBefore(a, b) ==
    \/ Available(a) > Available(b)
    \/ Available(a) = Available(b) /\ a.earned > b.earned
    \/ Available(a) = Available(b) /\ a.earned = b.earned /\ a.user_id < b.user_id

\* the users of the store in that order
Listed ==
    LET s == CHOOSE t \in Perms(LeaderRows) :
                 \A i, j \in 1..Len(t) : i < j => ListedBefore(t[i], t[j])
    IN [i \in 1..Len(s) |-> s[i].user_id]

\* the user ids of a reply's rows
UserIdsOf(rows) == [i \in 1..Len(rows) |-> rows[i].user_id]

\* C22: the export lists the users by available descending, earned
\* descending, user_id ascending, and page p of size n of the table is rows
\* (p-1)*n+1 .. p*n of that same list, so the pages put end to end are the
\* export.
C22_SameTotalOrder ==
    \A f \in Replies :
        /\ f.out = "csv" => UserIdsOf(f.rows) = Listed
        /\ f.out = "table" =>
              UserIdsOf(f.rows) =
                 SubSeq(Listed, (f.page - 1) * f.size + 1, Min(Len(Listed), f.page * f.size))

====
